---- MODULE Spec2Model ----
(***************************************************************************)
(* Mortgage calculator (src/CHANGELOG.md carries App.tsx, lines 216-849).  *)
(*                                                                         *)
(* Money is counted in hundredths of a currency unit, so the 0.01          *)
(* threshold of the linked-field effects is 1.  An empty input is stored   *)
(* by the onChange handlers as the empty string; it is the value           *)
(* EmptyString here and behaves in arithmetic as JavaScript's '' does      *)
(* (falsy, 0 in subtraction).                                              *)
(*                                                                         *)
(* A user edit is a discrete event: the form value changes, React renders  *)
(* and commits synchronously and flushes the two passive effects (Rule A,  *)
(* then Rule B) inside the same event.  A setValue made by an effect       *)
(* schedules a later re-render (DeferredRender) and a setTimeout(..., 0)   *)
(* that clears isUpdating (ReleaseGuard); these are two independent tasks  *)
(* of the event loop, as is the next user event, so they interleave.       *)
(***************************************************************************)
EXTENDS Integers, Sequences, FiniteSets, TLC

\* ---------------------------------------------------------------- bounds
\* user-entered amounts range over 0..MaxInput (hundredths)
MaxInput == 3
\* the whole form is followed for MaxEvents user events
MaxEvents == 3

\* ------------------------------------------------------ program constants
EmptyString == -1
Threshold == 1
DefaultPropertyValue == 36000000
DefaultLoanAmount == 30000000
DefaultDownPayment == 6000000
DefaultInterestRate == 450
DefaultLoanTerm == 30
MaxInterestRate == 10000
\* the amount typed in the form's test, 250000.00
TestAmount == 25000000

\* e.target.value of a number input is a string: a sequence of characters
\* here, '' when the input is cleared or holds no number
DigitChars == <<"0", "1", "2", "3", "4", "5", "6", "7", "8", "9">>

\* the text of k hundredths, k < 10: '0.0k'
HundredthsText(k) == <<"0", ".", "0", DigitChars[k + 1]>>

\* the texts typed into the linked fields when only they are edited: small
\* amounts, cleared, 80000 and the same zero-padded
InputValues ==
    {HundredthsText(k) : k \in 0..MaxInput}
        \cup {<<>>, <<"8", "0", "0", "0", "0">>, <<"0", "8", "0", "0", "0", "0">>}

\* the texts typed into the linked fields when the whole form is used: 0,
\* one hundredth above the default down payment, and 80000
FormInputValues ==
    {<<"0">>, <<"6", "0", "0", "0", "0", ".", "0", "1">>, <<"8", "0", "0", "0", "0">>}

\* interest rates, in hundredths of a percent: 0, 4.5, 100
RateInputs == {0, DefaultInterestRate, MaxInterestRate}

\* the texts of these rates, typed into the interest rate input
RateTexts == {<<"0">>, <<"4", ".", "5">>, <<"1", "0", "0">>}

LoanTerms == {15, 20, 30}

\* the texts typed into the amount of a funding source: cleared, 0, 250000
AmountInputs == {<<>>, <<"0">>, <<"2", "5", "0", "0", "0", "0">>}

\* the texts typed into a source-specific input: cleared, or 0
ParameterInputs == {<<>>, <<"0">>}

VARIABLES
    propertyValue,    \* form value
    loanAmount,       \* form value
    downPayment,      \* form value
    interestRate,     \* form value, in hundredths of a percent
    loanTerm,         \* form value, years
    watched,          \* watchPropertyValue / watchLoanAmount / watchDownPayment
                      \* as captured by the last committed render
    isUpdating,       \* isUpdating.current
    timers,           \* pending setTimeout(() => isUpdating.current = false, 0)
    fundingSources,   \* useState: the five sources, in tab order
    showResults,      \* useState
    monthlyPayment,   \* useState
    totalInterest,    \* useState
    paymentBreakdown, \* useState
    edit,             \* history: the most recent user edit of a linked field
    writes,           \* history: setValue targets since that edit, in order
    events,           \* history: number of user events so far
    submitted         \* history: the data and the funding sources of the last
                      \* two calculateMortgage calls, latest first, with the
                      \* payment, interest and breakdown each produced

linkedVars == <<propertyValue, loanAmount, downPayment, watched, isUpdating, timers>>
rateVars == <<interestRate, loanTerm>>
resultVars == <<showResults, monthlyPayment, totalInterest, paymentBreakdown>>
historyVars == <<edit, writes>>
vars == <<linkedVars, rateVars, fundingSources, resultVars, historyVars, events,
          submitted>>

\* ------------------------------------------------------------ JavaScript
\* ToNumber on a stored field value: '' is 0
Num(v) == IF v = EmptyString THEN 0 ELSE v
\* truthiness of a stored field value: '' and 0 are falsy
Truthy(v) == Num(v) # 0
Max(a, b) == IF a >= b THEN a ELSE b
Abs(a) == IF a >= 0 THEN a ELSE -a

DigitOf(c) == CHOOSE d \in 0..9 : DigitChars[d + 1] = c

RECURSIVE Decimal(_, _)
\* the integer written by the digits s[1..n]
Decimal(s, n) == IF n = 0 THEN 0 ELSE 10 * Decimal(s, n - 1) + DigitOf(s[n])

\* Number(s) for the text s of a number input holding a number with at most
\* two decimals, in hundredths
Number(s) ==
    LET point == IF \E i \in DOMAIN s : s[i] = "."
                 THEN CHOOSE i \in DOMAIN s : s[i] = "." ELSE Len(s) + 1
        frac  == SubSeq(s, point + 1, Len(s)) \o <<"0", "0">>
    IN  100 * Decimal(s, point - 1) + Decimal(frac, 2)

\* the value an onChange handler of the form passes to field.onChange
fieldOnChange(value) == IF value = <<>> THEN EmptyString ELSE Number(value)

\* the value an onChange handler of a funding source stores
sourceOnChange(value) == IF value = <<>> THEN 0 ELSE Number(value)

FormValues == [propertyValue |-> propertyValue,
               loanAmount    |-> loanAmount,
               downPayment   |-> downPayment]

\* ------------------------------------------------------ JavaScript numbers
\* A JavaScript number of the calculation is NaN, an infinity, or a finite
\* value kept as a signed decimal fixed-point magnitude: a little-endian
\* sequence of limbs in base LimbBase with FracLimbs limbs after the point
\* (20 decimal digits, finer than a double's 15-17), truncated where a double
\* rounds.
LimbBase == 10000
FracLimbs == 5

RECURSIVE Norm(_)
\* drop the leading (most significant) zero limbs
Norm(s) == IF s # <<>> /\ s[Len(s)] = 0 THEN Norm(SubSeq(s, 1, Len(s) - 1)) ELSE s

RECURSIVE Limbs(_)
Limbs(n) == IF n = 0 THEN <<>> ELSE <<n % LimbBase>> \o Limbs(n \div LimbBase)

Limb(s, i) == IF i >= 1 /\ i <= Len(s) THEN s[i] ELSE 0

RECURSIVE CmpFrom(_, _, _)
CmpFrom(a, b, i) ==
    IF i = 0 THEN 0
    ELSE IF Limb(a, i) > Limb(b, i) THEN 1
    ELSE IF Limb(a, i) < Limb(b, i) THEN -1
    ELSE CmpFrom(a, b, i - 1)

\* -1, 0 or 1 as a < b, a = b, a > b
CmpL(a, b) == CmpFrom(a, b, Max(Len(a), Len(b)))

RECURSIVE AddFrom(_, _, _, _)
AddFrom(a, b, i, carry) ==
    IF i > Len(a) /\ i > Len(b)
    THEN IF carry = 0 THEN <<>> ELSE <<carry>>
    ELSE LET t == Limb(a, i) + Limb(b, i) + carry
         IN  <<t % LimbBase>> \o AddFrom(a, b, i + 1, t \div LimbBase)

AddL(a, b) == Norm(AddFrom(a, b, 1, 0))

RECURSIVE SubFrom(_, _, _, _)
\* a - b for a >= b
SubFrom(a, b, i, borrow) ==
    IF i > Len(a) THEN <<>>
    ELSE LET t == Limb(a, i) - Limb(b, i) - borrow
         IN  IF t < 0 THEN <<t + LimbBase>> \o SubFrom(a, b, i + 1, 1)
                      ELSE <<t>> \o SubFrom(a, b, i + 1, 0)

SubL(a, b) == Norm(SubFrom(a, b, 1, 0))

RECURSIVE MulSmallFrom(_, _, _, _)
MulSmallFrom(a, k, i, carry) ==
    IF i > Len(a)
    THEN IF carry = 0 THEN <<>> ELSE <<carry>>
    ELSE LET t == a[i] * k + carry
         IN  <<t % LimbBase>> \o MulSmallFrom(a, k, i + 1, t \div LimbBase)

\* a * k for 0 <= k < LimbBase
MulSmallL(a, k) == Norm(MulSmallFrom(a, k, 1, 0))

\* a * LimbBase^n
ShiftL(a, n) == IF a = <<>> THEN <<>> ELSE [i \in 1..n |-> 0] \o a

\* a \div LimbBase^n
ShiftR(a, n) == IF Len(a) <= n THEN <<>> ELSE SubSeq(a, n + 1, Len(a))

RECURSIVE ColumnSum(_, _, _, _)
\* the sum of a[j] * b[k + 1 - j] over the j from i up that have both limbs
ColumnSum(a, b, k, i) ==
    IF i > Len(a) \/ i > k THEN 0
    ELSE a[i] * b[k + 1 - i] + ColumnSum(a, b, k, i + 1)

RECURSIVE MulFrom(_, _, _, _)
\* limbs k.. of a * b, column by column, carry brought up from column k - 1
MulFrom(a, b, k, carry) ==
    IF k > Len(a) + Len(b) THEN <<>>
    ELSE LET t == ColumnSum(a, b, k, Max(1, k + 1 - Len(b))) + carry
         IN  <<t % LimbBase>> \o MulFrom(a, b, k + 1, t \div LimbBase)

MulL(a, b) == IF a = <<>> \/ b = <<>> THEN <<>> ELSE Norm(MulFrom(a, b, 1, 0))

RECURSIVE DivSmallFrom(_, _, _, _)
\* limbs i..1 of a \div k, most significant first, rem the running remainder
DivSmallFrom(a, k, i, rem) ==
    IF i = 0 THEN <<>>
    ELSE LET t == rem * LimbBase + a[i]
         IN  IF t < k THEN DivSmallFrom(a, k, i - 1, t) \o <<0>>
                      ELSE DivSmallFrom(a, k, i - 1, t % k) \o <<t \div k>>

\* a \div k for 0 < k < LimbBase
DivSmallL(a, k) == Norm(DivSmallFrom(a, k, Len(a), 0))

RECURSIVE Digit(_, _, _)
\* <<d, r - d * b>> for the largest d in 0..guess with d * b <= r
Digit(r, b, guess) ==
    IF guess = 0 THEN <<0, r>>
    ELSE LET p == MulSmallL(b, guess)
         IN  IF CmpL(p, r) <= 0 THEN <<guess, SubL(r, p)>>
                                ELSE Digit(r, b, guess - 1)

RECURSIVE DivFrom(_, _, _, _)
\* schoolbook long division, limb i of a brought down into the remainder rem.
\* The leading limb of b is at least LimbBase \div 2, so the quotient digit
\* is at most 2 below the estimate made from the leading limbs.
DivFrom(a, b, i, rem) ==
    IF i = 0 THEN <<>>
    ELSE LET r     == Norm(<<a[i]>> \o rem)
             n     == Len(b)
             top   == (Limb(r, n + 1) * LimbBase + Limb(r, n)) \div b[n]
             guess == IF top < LimbBase THEN top ELSE LimbBase - 1
             qr    == Digit(r, b, guess)
         IN  IF qr[1] = 0 THEN DivFrom(a, b, i - 1, r) \o <<0>>
                          ELSE DivFrom(a, b, i - 1, qr[2]) \o <<qr[1]>>

\* a \div b for b # 0; both are scaled first to bring the leading limb of b
\* up to LimbBase \div 2
DivL(a, b) ==
    LET f  == LimbBase \div (b[Len(b)] + 1)
        an == MulSmallL(a, f)
        bn == MulSmallL(b, f)
    IN  Norm(DivFrom(an, bn, Len(an), <<>>))

NaN == [kind |-> "NaN", sign |-> 0, mag |-> <<>>]

Infinity(sgn) == [kind |-> "Infinity", sign |-> sgn, mag |-> <<>>]

Finite(sgn, mag) == [kind |-> "finite", sign |-> IF mag = <<>> THEN 0 ELSE sgn, mag |-> mag]

Sign(n) == IF n > 0 THEN 1 ELSE IF n < 0 THEN -1 ELSE 0

\* the number n
FromInt(n) == Finite(Sign(n), ShiftL(Limbs(Abs(n)), FracLimbs))

\* the number n / 100
FromHundredths(n) == Finite(Sign(n), DivSmallL(ShiftL(Limbs(Abs(n)), FracLimbs), 100))

\* a * b
JMul(a, b) ==
    IF a.kind = "NaN" \/ b.kind = "NaN" THEN NaN
    ELSE IF a.kind = "Infinity" \/ b.kind = "Infinity"
         THEN IF a.sign = 0 \/ b.sign = 0 THEN NaN ELSE Infinity(a.sign * b.sign)
    ELSE Finite(a.sign * b.sign, ShiftR(MulL(a.mag, b.mag), FracLimbs))

\* a / b; a zero divisor is +0
JDiv(a, b) ==
    IF a.kind = "NaN" \/ b.kind = "NaN" THEN NaN
    ELSE IF a.kind = "Infinity"
         THEN IF b.kind = "Infinity" THEN NaN
              ELSE Infinity(IF b.sign < 0 THEN -a.sign ELSE a.sign)
    ELSE IF b.kind = "Infinity" THEN Finite(0, <<>>)
    ELSE IF b.sign = 0
         THEN IF a.sign = 0 THEN NaN ELSE Infinity(a.sign)
    ELSE Finite(a.sign * b.sign, DivL(ShiftL(a.mag, FracLimbs), b.mag))

JNeg(a) == [a EXCEPT !.sign = -a.sign]

\* a + b
JAdd(a, b) ==
    IF a.kind = "NaN" \/ b.kind = "NaN" THEN NaN
    ELSE IF a.kind = "Infinity"
         THEN IF b.kind = "Infinity" /\ b.sign # a.sign THEN NaN ELSE a
    ELSE IF b.kind = "Infinity" THEN b
    ELSE IF a.sign = 0 THEN b
    ELSE IF b.sign = 0 THEN a
    ELSE IF a.sign = b.sign THEN Finite(a.sign, AddL(a.mag, b.mag))
    ELSE IF CmpL(a.mag, b.mag) >= 0 THEN Finite(a.sign, SubL(a.mag, b.mag))
    ELSE Finite(b.sign, SubL(b.mag, a.mag))

\* a - b
JSub(a, b) == JAdd(a, JNeg(b))

RECURSIVE Pow(_, _)
\* Math.pow(b, n) for an integer n >= 0, by repeated squaring
Pow(b, n) ==
    IF n = 0 THEN FromInt(1)
    ELSE LET h  == Pow(b, n \div 2)
             sq == JMul(h, h)
         IN  IF n % 2 = 1 THEN JMul(sq, b) ELSE sq

\* --------------------------------------------------- linked-field effects
\* c is the render's closure: the three watched values
calculatedLoanAmountUnclamped(c) == Num(c.propertyValue) - Num(c.downPayment)

calculatedLoanAmount(c) == Max(0, Num(c.propertyValue) - Num(c.downPayment))

calculatedDownPayment(c) == Max(0, Num(c.propertyValue) - Num(c.loanAmount))

RuleAWritesUnguarded(c, g) ==
    /\ Truthy(c.propertyValue)
    /\ Abs(calculatedLoanAmount(c) - Num(c.loanAmount)) > Threshold

RuleAWritesAnyDifference(c, g) ==
    /\ ~g
    /\ Truthy(c.propertyValue)
    /\ Abs(calculatedLoanAmount(c) - Num(c.loanAmount)) > 0

\* Rule A reaches its setValue('loanAmount', ...); g is isUpdating.current
RuleAWrites(c, g) ==
    /\ ~g
    /\ Truthy(c.propertyValue)
    /\ Abs(calculatedLoanAmount(c) - Num(c.loanAmount)) > Threshold

RuleBWritesWithoutThreshold(c, g) == ~g /\ Truthy(c.propertyValue)

RuleBWritesUnguarded(c, g) ==
    /\ Truthy(c.propertyValue)
    /\ Abs(calculatedDownPayment(c) - Num(c.downPayment)) > Threshold

\* Rule B reaches its setValue('downPayment', ...)
RuleBWrites(c, g) ==
    /\ ~g
    /\ Truthy(c.propertyValue)
    /\ Abs(calculatedDownPayment(c) - Num(c.downPayment)) > Threshold

\* A render with form values c commits; the effects whose dependencies
\* changed run in declaration order, Rule A then Rule B, both on closure c.
\* All three watched values are dependencies of both effects.
Commit(c, w) ==
    LET run == c # watched
        a   == run /\ RuleAWrites(c, isUpdating)
        gA  == isUpdating \/ a
        b   == run /\ RuleBWrites(c, gA)
    IN  /\ propertyValue' = c.propertyValue
        /\ loanAmount' = IF a THEN calculatedLoanAmount(c) ELSE c.loanAmount
        /\ downPayment' = IF b THEN calculatedDownPayment(c) ELSE c.downPayment
        /\ isUpdating' = (gA \/ b)
        /\ timers' = timers + (IF a THEN 1 ELSE 0) + (IF b THEN 1 ELSE 0)
        /\ watched' = c
        /\ writes' = w \o (IF a THEN <<"loanAmount">> ELSE <<>>)
                       \o (IF b THEN <<"downPayment">> ELSE <<>>)

\* the user changes one of the three linked inputs to v
EditField(f, v) ==
    /\ v # FormValues[f]
    /\ LET c == [FormValues EXCEPT ![f] = v]
       IN  /\ edit' = [field   |-> f,
                       value   |-> v,
                       guarded |-> isUpdating,
                       broke   |-> Abs(Num(c.propertyValue)
                                        - (Num(c.loanAmount) + Num(c.downPayment)))
                                    > Threshold]
           /\ Commit(c, <<>>)
    /\ UNCHANGED <<rateVars, fundingSources, resultVars, submitted>>

EditPropertyValue(S) == \E s \in S : EditField("propertyValue", fieldOnChange(s))

EditLoanAmount(S) == \E s \in S : EditField("loanAmount", fieldOnChange(s))

EditDownPayment(S) == \E s \in S : EditField("downPayment", fieldOnChange(s))

\* a render caused by something other than a linked input: it commits the
\* current form values, so it runs the effects if a setValue is outstanding
Rerender == Commit(FormValues, writes) /\ UNCHANGED edit

DeferredRenderClearingResults ==
    /\ FormValues # watched
    /\ Rerender
    /\ showResults' = FALSE
    /\ UNCHANGED <<rateVars, fundingSources, monthlyPayment, totalInterest,
                   paymentBreakdown, submitted, events>>

\* the re-render scheduled by an effect's setValue
DeferredRender ==
    /\ FormValues # watched
    /\ Rerender
    /\ UNCHANGED <<rateVars, fundingSources, resultVars, submitted, events>>

ReleaseGuardLeavesFlag ==
    /\ timers > 0
    /\ timers' = timers - 1
    /\ UNCHANGED <<propertyValue, loanAmount, downPayment, watched, isUpdating, historyVars>>
    /\ UNCHANGED <<rateVars, fundingSources, resultVars, submitted, events>>

\* the setTimeout callback of Rule A or Rule B
ReleaseGuard ==
    /\ timers > 0
    /\ isUpdating' = FALSE
    /\ timers' = timers - 1
    /\ UNCHANGED <<propertyValue, loanAmount, downPayment, watched, historyVars>>
    /\ UNCHANGED <<rateVars, fundingSources, resultVars, submitted, events>>

\* ------------------------------------------------------------- calculator
\* the interest rate and the loan term inputs
EditInterestRate ==
    \E s \in RateTexts :
        /\ fieldOnChange(s) # interestRate
        /\ interestRate' = fieldOnChange(s)
        /\ Rerender
        /\ UNCHANGED <<loanTerm, fundingSources, resultVars, submitted>>

EditLoanTerm ==
    \E v \in LoanTerms :
        /\ v # loanTerm
        /\ loanTerm' = v
        /\ Rerender
        /\ UNCHANGED <<interestRate, fundingSources, resultVars, submitted>>

updatedSourcesAmountCleared(sources, index) ==
    [sources EXCEPT ![index].enabled = ~sources[index].enabled, ![index].amount = 0]

\* the array toggleFundingSource passes to setFundingSources
updatedSources(sources, index) ==
    [sources EXCEPT ![index].enabled = ~sources[index].enabled]

toggleFundingSource(index) ==
    /\ fundingSources' = updatedSources(fundingSources, index)
    /\ Rerender
    /\ UNCHANGED <<rateVars, resultVars, submitted>>

\* the amount input is disabled while the source is not enabled
updateFundingSourceAmount(index, value) ==
    /\ fundingSources[index].enabled
    /\ IF value = <<>> THEN TRUE ELSE Number(value) # fundingSources[index].amount
    /\ fundingSources' = [fundingSources EXCEPT ![index].amount = sourceOnChange(value)]
    /\ Rerender
    /\ UNCHANGED <<rateVars, resultVars, submitted>>

\* the onChange handler of a source-specific input (monthlyContribution,
\* appreciationRate, interestRate, rentalIncome, taxRate); the input is
\* disabled while the source is not enabled
updateSourceParameter(index, field, value) ==
    /\ fundingSources[index].enabled
    /\ IF value = <<>> THEN TRUE ELSE Number(value) # fundingSources[index][field]
    /\ fundingSources' = [fundingSources EXCEPT ![index][field] = sourceOnChange(value)]
    /\ Rerender
    /\ UNCHANGED <<rateVars, resultVars, submitted>>

UpdateMonthlyContribution ==
    \E v \in ParameterInputs : updateSourceParameter(1, "monthlyContribution", v)

UpdateHouseAppreciationRate ==
    \E v \in ParameterInputs : updateSourceParameter(2, "appreciationRate", v)

UpdatePledgedInterestRate ==
    \E v \in ParameterInputs : updateSourceParameter(3, "interestRate", v)

UpdateRentalIncome ==
    \E v \in ParameterInputs : updateSourceParameter(4, "rentalIncome", v)

UpdateSecuritiesAppreciationRate ==
    \E v \in ParameterInputs : updateSourceParameter(5, "appreciationRate", v)

UpdateSecuritiesTaxRate ==
    \E v \in ParameterInputs : updateSourceParameter(5, "taxRate", v)

ToggleFundingSource == \E i \in DOMAIN fundingSources : toggleFundingSource(i)

UpdateFundingSourceAmount ==
    \E i \in DOMAIN fundingSources, v \in AmountInputs : updateFundingSourceAmount(i, v)

\* the data handleSubmit passes to calculateMortgage
FormData == [loanAmount    |-> loanAmount,
             interestRate  |-> interestRate,
             loanTerm      |-> loanTerm,
             downPayment   |-> downPayment,
             propertyValue |-> propertyValue]

principalLessDownPayment(data) ==
    FromInt(Num(data.loanAmount) - Num(data.downPayment))

principal(data) == FromInt(Num(data.loanAmount))

monthlyRate(data) ==
    JDiv(JDiv(FromHundredths(Num(data.interestRate)), FromInt(100)), FromInt(12))

numberOfYears(data) == data.loanTerm

numberOfPayments(data) == data.loanTerm * 12

\* Math.pow(1 + monthlyRate, numberOfPayments), tabulated over the rates and
\* terms the form can hold
PowTable ==
    [rate \in {Num(v) : v \in RateInputs}, term \in LoanTerms |->
        LET data == [interestRate |-> rate, loanTerm |-> term]
        IN  Pow(JAdd(FromInt(1), monthlyRate(data)), numberOfPayments(data))]

monthly(data) ==
    LET x == PowTable[Num(data.interestRate), data.loanTerm]
    IN  JDiv(JMul(JMul(principal(data), x), monthlyRate(data)), JSub(x, FromInt(1)))

interestAccumulated(data, payment) ==
    JAdd(totalInterest,
         JSub(JMul(payment, FromInt(numberOfPayments(data))), principal(data)))

interest(data, payment) ==
    JSub(JMul(payment, FromInt(numberOfPayments(data))), principal(data))

RECURSIVE Sum(_, _)
\* reduce((acc, source) => acc + source.amount, 0) from index i on
Sum(sources, i) ==
    IF i > Len(sources) THEN 0 ELSE sources[i].amount + Sum(sources, i + 1)

IsAnySource(source) == TRUE

IsEnabled(source) == source.enabled

IsFundingAnyAmount(source) == source.enabled

HasAmount(source) == source.amount > 0

IsFunding(source) == source.enabled /\ source.amount > 0

totalFundingWithContribution(sources) ==
    Sum(SelectSeq(sources, IsEnabled), 1) + sources[1].monthlyContribution

totalFunding(sources) == Sum(SelectSeq(sources, IsEnabled), 1)

breakdownOfLoanAmount(sources, data) ==
    LET funding == SelectSeq(sources, IsFunding)
    IN  [i \in 1..Len(funding) |->
            [name  |-> funding[i].name,
             value |-> JMul(JDiv(FromInt(funding[i].amount),
                                 FromInt(totalFunding(sources))),
                            FromInt(Num(data.loanAmount)))]]

breakdownReversed(sources, data) ==
    LET funding == SelectSeq(sources, IsFunding)
        n       == Len(funding)
    IN  [i \in 1..n |->
            [name  |-> funding[n + 1 - i].name,
             value |-> JMul(JDiv(FromInt(funding[n + 1 - i].amount),
                                 FromInt(totalFunding(sources))),
                            FromInt(Num(data.downPayment)))]]

breakdown(sources, data) ==
    LET funding == SelectSeq(sources, IsFunding)
    IN  [i \in 1..Len(funding) |->
            [name  |-> funding[i].name,
             value |-> JMul(JDiv(FromInt(funding[i].amount),
                                 FromInt(totalFunding(sources))),
                            FromInt(Num(data.downPayment)))]]

calculateMortgage(data) ==
    /\ monthlyPayment' = monthly(data)
    /\ totalInterest' = interest(data, monthlyPayment')
    /\ paymentBreakdown' = breakdown(fundingSources, data)
    /\ showResults' = TRUE

CalculateResettingTerm ==
    /\ calculateMortgage(FormData)
    /\ submitted' = SubSeq(<<[data             |-> FormData,
                              sources          |-> fundingSources,
                              monthlyPayment   |-> monthlyPayment',
                              totalInterest    |-> totalInterest',
                              paymentBreakdown |-> paymentBreakdown']>>
                               \o submitted, 1,
                           IF submitted = <<>> THEN 1 ELSE 2)
    /\ Rerender
    /\ loanTerm' = DefaultLoanTerm
    /\ UNCHANGED <<interestRate, fundingSources>>

\* the Calculate Mortgage button submits the form
Calculate ==
    /\ calculateMortgage(FormData)
    /\ submitted' = SubSeq(<<[data             |-> FormData,
                              sources          |-> fundingSources,
                              monthlyPayment   |-> monthlyPayment',
                              totalInterest    |-> totalInterest',
                              paymentBreakdown |-> paymentBreakdown']>>
                               \o submitted, 1,
                           IF submitted = <<>> THEN 1 ELSE 2)
    /\ Rerender
    /\ UNCHANGED <<rateVars, fundingSources>>

\* a render that throws: '' + totalInterest is a string, which has no toFixed
TypeError == [kind |-> "TypeError", sign |-> 0, mag |-> <<>>]

\* the Total Cost card of the last committed render:
\* formValues.loanAmount + totalInterest
totalCost ==
    IF watched.loanAmount = EmptyString THEN TypeError
    ELSE JAdd(FromInt(watched.loanAmount), totalInterest)

\* --------------------------------------------------------- specifications
initialFundingSources ==
    << [id |-> "earned_income",  name |-> "Earned Income",
        enabled |-> TRUE,  amount |-> 500000, monthlyContribution |-> 300000],
       [id |-> "existing_house", name |-> "Sell Existing House",
        enabled |-> FALSE, amount |-> 20000000, appreciationRate |-> 300],
       [id |-> "pledged_asset",  name |-> "Pledged Asset Mortgage",
        enabled |-> FALSE, amount |-> 10000000, interestRate |-> 400],
       [id |-> "rental_income",  name |-> "Rental Income",
        enabled |-> FALSE, amount |-> 0, rentalIncome |-> 150000],
       [id |-> "securities",     name |-> "Sell Securities",
        enabled |-> FALSE, amount |-> 5000000, appreciationRate |-> 700,
        taxRate |-> 1500] >>

Init ==
    /\ propertyValue = DefaultPropertyValue
    /\ loanAmount = DefaultLoanAmount
    /\ downPayment = DefaultDownPayment
    /\ interestRate = DefaultInterestRate
    /\ loanTerm = DefaultLoanTerm
    /\ watched = [propertyValue |-> DefaultPropertyValue,
                  loanAmount    |-> DefaultLoanAmount,
                  downPayment   |-> DefaultDownPayment]
    /\ isUpdating = FALSE
    /\ timers = 0
    /\ fundingSources = initialFundingSources
    /\ showResults = FALSE
    /\ monthlyPayment = FromInt(0)
    /\ totalInterest = FromInt(0)
    /\ paymentBreakdown = <<>>
    /\ edit = [field |-> "none", value |-> 0, guarded |-> FALSE, broke |-> FALSE]
    /\ writes = <<>>
    /\ events = 0
    /\ submitted = <<>>

\* The linked fields alone, under every sequence of edits.  The other user
\* events re-render with the current form values, which is DeferredRender
\* when a setValue is outstanding and changes no linked state otherwise.
NextLinked ==
    \/ EditPropertyValue(InputValues) /\ UNCHANGED events
    \/ EditLoanAmount(InputValues) /\ UNCHANGED events
    \/ EditDownPayment(InputValues) /\ UNCHANGED events
    \/ DeferredRender
    \/ ReleaseGuard

SpecLinked == Init /\ [][NextLinked]_vars

\* The event loop runs every timer callback that is due: a pending
\* setTimeout(..., 0) callback is not postponed forever.
SpecLinkedFair == SpecLinked /\ WF_vars(ReleaseGuard)

\* The whole form, for the first MaxEvents user events.
UserEvent == events < MaxEvents /\ events' = events + 1

Next ==
    \/ UserEvent /\ EditPropertyValue(FormInputValues)
    \/ UserEvent /\ EditLoanAmount(FormInputValues)
    \/ UserEvent /\ EditDownPayment(FormInputValues)
    \/ UserEvent /\ EditInterestRate
    \/ UserEvent /\ EditLoanTerm
    \/ UserEvent /\ ToggleFundingSource
    \/ UserEvent /\ UpdateFundingSourceAmount
    \/ UserEvent /\ UpdateMonthlyContribution
    \/ UserEvent /\ UpdateHouseAppreciationRate
    \/ UserEvent /\ UpdatePledgedInterestRate
    \/ UserEvent /\ UpdateRentalIncome
    \/ UserEvent /\ UpdateSecuritiesAppreciationRate
    \/ UserEvent /\ UpdateSecuritiesTaxRate
    \/ UserEvent /\ Calculate
    \/ DeferredRender
    \/ ReleaseGuard

Spec == Init /\ [][Next]_vars

\* no effect run and no guard-release timer is pending
Settled == FormValues = watched /\ timers = 0

Equation ==
    Abs(Num(propertyValue) - (Num(loanAmount) + Num(downPayment))) <= Threshold

\* ----------------------------------------------------------------- claims
IsNumber(v) == v # EmptyString

\* C1: once no effect run and no guard-release timer is pending, the three
\* fields (each holding a number) satisfy
\* |propertyValue - (loanAmount + downPayment)| <= 0.01.
C1_ReconciliationConvergence ==
    (Settled /\ IsNumber(propertyValue) /\ IsNumber(loanAmount) /\ IsNumber(downPayment))
        => Equation

\* C2: after the user edits loanAmount to v (the guard being free) with
\* propertyValue P > 0, once settled loanAmount is still v and downPayment is
\* max(0, P - v), within the 0.01 tolerance of Rule B.
C2_RuleB ==
    (/\ Settled
     /\ edit.field = "loanAmount" /\ IsNumber(edit.value) /\ ~edit.guarded
     /\ Num(propertyValue) > 0)
        => /\ loanAmount = edit.value
           /\ Abs(Num(downPayment) - Max(0, Num(propertyValue) - edit.value)) <= Threshold

\* C3: after the user edits downPayment to d (the guard being free) with
\* propertyValue P > 0, once settled downPayment is still d and loanAmount is
\* max(0, P - d), within the 0.01 tolerance of Rule A.
C3_RuleA ==
    (/\ Settled
     /\ edit.field = "downPayment" /\ IsNumber(edit.value) /\ ~edit.guarded
     /\ Num(propertyValue) > 0)
        => /\ downPayment = edit.value
           /\ Abs(Num(loanAmount) - Max(0, Num(propertyValue) - edit.value)) <= Threshold

\* C4: no corrective write since the user's edit of loanAmount or downPayment
\* targets the field that was edited.
C4_DerivedIsTheOtherField ==
    (edit.field \in {"loanAmount", "downPayment"} /\ IsNumber(edit.value))
        => \A i \in DOMAIN writes : writes[i] # edit.field

\* C5: a user edit causes at most one corrective write, and an edit of
\* propertyValue that breaks the equation has caused exactly one once the
\* system has settled.
C5_OneCorrectiveWrite ==
    /\ Len(writes) <= 1
    /\ (Settled /\ edit.field = "propertyValue" /\ IsNumber(edit.value) /\ edit.broke)
           => Len(writes) = 1

\* C6: an edit that arrived while isUpdating was still set (after a corrective
\* write, before its release timer) is reconciled: once settled, with
\* propertyValue > 0 and neither companion field above it, the equation holds.
C6_EditBeforeReleaseNotSwallowed ==
    (/\ Settled
     /\ edit.guarded
     /\ IsNumber(propertyValue) /\ IsNumber(loanAmount) /\ IsNumber(downPayment)
     /\ propertyValue > 0 /\ loanAmount <= propertyValue /\ downPayment <= propertyValue)
        => Equation

\* C7: with every user-entered value >= 0, propertyValue, loanAmount and
\* downPayment are >= 0 (or cleared) in every reachable state, so every value
\* the reconciler writes is >= 0.
C7_Clamped ==
    \A v \in {propertyValue, loanAmount, downPayment} : v = EmptyString \/ v >= 0

\* Rule A has written the clamped value 0 for a down payment above the
\* property value
C7_Witness ==
    /\ writes = <<"loanAmount">>
    /\ Truthy(propertyValue)
    /\ Num(downPayment) > Num(propertyValue)
    /\ loanAmount = 0

\* C8: a calculation submitted with interestRate = 0 yields
\* monthlyPayment = principal / (loanTerm * 12) and totalInterest = 0.
C8_ZeroRateBranch ==
    (showResults /\ Num(submitted[1].data.interestRate) = 0)
        => /\ monthlyPayment = JDiv(principal(submitted[1].data),
                                    FromInt(numberOfPayments(submitted[1].data)))
           /\ totalInterest = FromInt(0)

\* C9: no component of a result is NaN or an infinity.
C9_NoNaNOrInfinity ==
    showResults
        => /\ monthlyPayment.kind = "finite"
           /\ totalInterest.kind = "finite"
           /\ \A i \in DOMAIN paymentBreakdown : paymentBreakdown[i].value.kind = "finite"

SamePaymentInputs(d, e) ==
    /\ d.loanAmount = e.loanAmount
    /\ d.interestRate = e.interestRate
    /\ d.loanTerm = e.loanTerm

\* C10: two consecutive calculations whose data agree on loanAmount,
\* interestRate and loanTerm produce the same monthlyPayment and totalInterest,
\* whatever downPayment and propertyValue they were submitted with.
C10_PrincipalIsLoanAmount ==
    (Len(submitted) = 2 /\ SamePaymentInputs(submitted[1].data, submitted[2].data))
        => /\ submitted[1].monthlyPayment = submitted[2].monthlyPayment
           /\ submitted[1].totalInterest = submitted[2].totalInterest

\* two calculations of a positive payment that differ in downPayment alone
C10_Witness ==
    /\ Len(submitted) = 2
    /\ SamePaymentInputs(submitted[1].data, submitted[2].data)
    /\ submitted[1].data.downPayment # submitted[2].data.downPayment
    /\ submitted[1].data.propertyValue = submitted[2].data.propertyValue
    /\ monthlyPayment = submitted[1].monthlyPayment
    /\ monthlyPayment.kind = "finite" /\ monthlyPayment.sign = 1

\* a and b are finite and differ by at most tol
Near(a, b, tol) ==
    /\ a.kind = "finite" /\ b.kind = "finite"
    /\ CmpL(JSub(a, b).mag, tol.mag) <= 0

\* one hundredth of the money unit of the model
Tolerance == FromHundredths(1)

RECURSIVE PowerByProducts(_, _)
\* b^n as the product of n factors b
PowerByProducts(b, n) ==
    IF n = 0 THEN FromInt(1)
    ELSE LET p == PowerByProducts(b, n - 1)
         IN  IF p.kind = "finite" THEN JMul(p, b) ELSE p

\* interestRate / 100 / 12 as one quotient, the rate given in hundredths of a
\* percent
AnnuityRate(rate) == JDiv(FromInt(rate), FromInt(120000))

\* (1 + monthlyRate)^numPayments for the positive rates and the terms of the
\* form, as the growth of one year (12 payments) raised to the number of years
YearGrowth ==
    [rate \in RateInputs \ {0} |->
        PowerByProducts(JAdd(FromInt(1), AnnuityRate(rate)), 12)]

AnnuityGrowth ==
    [rate \in RateInputs \ {0}, term \in LoanTerms |->
        PowerByProducts(YearGrowth[rate], term)]

\* x * monthlyRate / (x - 1), the payment for each unit of principal
AnnuityFactor ==
    [rate \in RateInputs \ {0}, term \in LoanTerms |->
        LET x == AnnuityGrowth[rate, term]
        IN  JDiv(JMul(x, AnnuityRate(rate)), JSub(x, FromInt(1)))]

\* principal * x * monthlyRate / (x - 1) for loan amount p
AnnuityPayment(p, rate, term) == JMul(FromInt(p), AnnuityFactor[rate, term])

\* C11: a calculation submitted with interestRate > 0 yields
\* monthlyPayment = principal * x * monthlyRate / (x - 1), with
\* monthlyRate = interestRate / 100 / 12 and x = (1 + monthlyRate)^(loanTerm * 12),
\* and totalInterest = monthlyPayment * loanTerm * 12 - principal.
C11_AmortizationFormula ==
    (showResults /\ Num(submitted[1].data.interestRate) > 0)
        => LET d == submitted[1].data
           IN  /\ Near(monthlyPayment,
                       AnnuityPayment(Num(d.loanAmount), d.interestRate, d.loanTerm),
                       Tolerance)
               /\ Near(totalInterest,
                       JSub(JMul(monthlyPayment, FromInt(d.loanTerm * 12)),
                            FromInt(Num(d.loanAmount))),
                       Tolerance)

\* the defaults (300000 at 4.5% over 30 years) give a payment of 1520.06
C11_Witness ==
    /\ showResults
    /\ submitted[1].data.loanAmount = DefaultLoanAmount
    /\ submitted[1].data.interestRate = DefaultInterestRate
    /\ submitted[1].data.loanTerm = DefaultLoanTerm
    /\ Near(monthlyPayment, FromInt(152006), FromInt(1))

\* what the summary cards and the charts show
result == <<monthlyPayment, totalInterest, totalCost, paymentBreakdown>>

\* C12: once results are shown, monthlyPayment, totalInterest, totalCost and
\* the breakdown change only in a step that is a calculate action.
C12_ResultChangesOnlyAtCalculate ==
    [][showResults => (result' = result \/ (UserEvent /\ Calculate))]_vars

\* C13: while results are shown, totalCost = principal + totalInterest, the
\* principal being that of the calculation that produced totalInterest.
C13_TotalCost ==
    showResults
        => totalCost = JAdd(FromInt(Num(submitted[1].data.loanAmount)), totalInterest)

\* the sources that were enabled with amount > 0 at the last calculation
FundingIndices(sources) ==
    {i \in DOMAIN sources : sources[i].enabled /\ sources[i].amount > 0}

RECURSIVE EnabledTotalUpTo(_, _)
\* the sum of amount over the enabled sources 1..i
EnabledTotalUpTo(sources, i) ==
    IF i = 0 THEN 0
    ELSE (IF sources[i].enabled THEN sources[i].amount ELSE 0)
             + EnabledTotalUpTo(sources, i - 1)

EnabledTotal(sources) == EnabledTotalUpTo(sources, Len(sources))

\* C14: after a calculation the breakdown has exactly one entry for each source
\* that was enabled with amount > 0 when it was made, and no other entry.
C14_BreakdownEntries ==
    showResults
        => LET src == submitted[1].sources
           IN  /\ Len(paymentBreakdown) = Cardinality(FundingIndices(src))
               /\ \A i \in FundingIndices(src) :
                      \E k \in DOMAIN paymentBreakdown :
                          paymentBreakdown[k].name = src[i].name
               /\ \A k \in DOMAIN paymentBreakdown :
                      \E i \in FundingIndices(src) :
                          paymentBreakdown[k].name = src[i].name

\* a calculation with an enabled source of amount 0 and a disabled source of
\* amount > 0, neither of which has an entry
C14_Witness ==
    /\ showResults
    /\ paymentBreakdown # <<>>
    /\ \E i \in DOMAIN fundingSources :
           /\ submitted[1].sources[i].enabled
           /\ submitted[1].sources[i].amount = 0
    /\ \E i \in DOMAIN fundingSources :
           /\ ~submitted[1].sources[i].enabled
           /\ submitted[1].sources[i].amount > 0

\* the source of a breakdown entry
SourceOf(sources, entry) == CHOOSE i \in DOMAIN sources : sources[i].name = entry.name

\* C15: each breakdown entry's value is (amount / totalFunding) * downPayment,
\* totalFunding the sum of amount over the enabled sources, downPayment the
\* value submitted; compared with amount * downPayment / totalFunding.
C15_AllocationFormula ==
    showResults
        => LET src == submitted[1].sources
               dp  == Num(submitted[1].data.downPayment)
           IN  \A k \in DOMAIN paymentBreakdown :
                   Near(paymentBreakdown[k].value,
                        JDiv(JMul(FromInt(src[SourceOf(src, paymentBreakdown[k])].amount),
                                  FromInt(dp)),
                             FromInt(EnabledTotal(src))),
                        Tolerance)

\* amounts 5000 and 200000 with downPayment 60000 give 1463.41 and 58536.59
C15_Witness ==
    /\ showResults
    /\ submitted[1].data.downPayment = DefaultDownPayment
    /\ Len(paymentBreakdown) = 2
    /\ Near(paymentBreakdown[1].value, FromInt(146341), FromInt(1))
    /\ Near(paymentBreakdown[2].value, FromInt(5853659), FromInt(1))

RECURSIVE SumOfValues(_, _)
\* the sum of the values of entries 1..k
SumOfValues(entries, k) ==
    IF k = 0 THEN FromInt(0)
    ELSE JAdd(SumOfValues(entries, k - 1), entries[k].value)

\* C16: when the enabled sources have total amount > 0, the breakdown values
\* sum to the submitted downPayment, within a hundredth of the money unit.
C16_AllocationNormalization ==
    (showResults /\ EnabledTotal(submitted[1].sources) > 0)
        => Near(SumOfValues(paymentBreakdown, Len(paymentBreakdown)),
                FromInt(Num(submitted[1].data.downPayment)),
                Tolerance)

\* several shares of a positive down payment, one source left out
C16_Witness ==
    /\ showResults
    /\ Len(paymentBreakdown) >= 2
    /\ Num(submitted[1].data.downPayment) > 0
    /\ \E i \in DOMAIN fundingSources : ~submitted[1].sources[i].enabled

\* C17: when no source is enabled or every enabled amount is 0, the breakdown
\* is empty; and no breakdown value is ever NaN or an infinity.
C17_ZeroFundingGuard ==
    showResults
        => /\ EnabledTotal(submitted[1].sources) = 0 => paymentBreakdown = <<>>
           /\ \A k \in DOMAIN paymentBreakdown :
                  paymentBreakdown[k].value.kind = "finite"

\* a calculation made with no source enabled
C17_Witness ==
    /\ showResults
    /\ \A i \in DOMAIN fundingSources : ~submitted[1].sources[i].enabled
    /\ paymentBreakdown = <<>>

\* the position of a source in the source-definition order
DefinitionIndex(name) ==
    CHOOSE i \in DOMAIN initialFundingSources : initialFundingSources[i].name = name

\* C18: the breakdown entries are in source-definition order.
C18_DefinitionOrder ==
    \A j, k \in DOMAIN paymentBreakdown :
        j < k => DefinitionIndex(paymentBreakdown[j].name)
                     < DefinitionIndex(paymentBreakdown[k].name)

\* two entries of which the first in definition order has the larger amount,
\* typed by the user
C18_Witness ==
    /\ Len(paymentBreakdown) = 2
    /\ CmpL(paymentBreakdown[1].value.mag, paymentBreakdown[2].value.mag) > 0
    /\ submitted[1].sources[1].amount = TestAmount

\* what calculateMortgage reads of a source
Core(source) == [name |-> source.name, enabled |-> source.enabled, amount |-> source.amount]

SameCore(s, t) == \A i \in DOMAIN s : Core(s[i]) = Core(t[i])

\* C19: two consecutive calculations with the same form data and the same
\* enabled flags and amounts yield the same monthlyPayment, totalInterest and
\* breakdown, whatever the source-specific parameters are.
C19_ParametersHaveNoInfluence ==
    (/\ Len(submitted) = 2
     /\ submitted[1].data = submitted[2].data
     /\ SameCore(submitted[1].sources, submitted[2].sources))
        => /\ submitted[1].monthlyPayment = submitted[2].monthlyPayment
           /\ submitted[1].totalInterest = submitted[2].totalInterest
           /\ submitted[1].paymentBreakdown = submitted[2].paymentBreakdown

\* two calculations between which only a source-specific parameter changed
C19_Witness ==
    /\ Len(submitted) = 2
    /\ submitted[1].data = submitted[2].data
    /\ SameCore(submitted[1].sources, submitted[2].sources)
    /\ submitted[1].sources # submitted[2].sources
    /\ submitted[1].paymentBreakdown # <<>>

\* C20: a calculate action whose form data and funding sources are those of
\* the previous calculate action leaves monthlyPayment, totalInterest, the
\* breakdown and showResults as that one set them.
C20_Idempotence ==
    [][(/\ showResults
        /\ FormData = submitted[1].data
        /\ fundingSources = submitted[1].sources
        /\ UserEvent /\ Calculate)
           => resultVars' = resultVars]_vars

\* the same calculation made twice, with a positive payment and a breakdown
C20_Witness ==
    /\ Len(submitted) = 2
    /\ submitted[1] = submitted[2]
    /\ monthlyPayment.kind = "finite" /\ monthlyPayment.sign = 1
    /\ paymentBreakdown # <<>>

\* a source without its enabled flag
Unflagged(source) == [f \in DOMAIN source \ {"enabled"} |-> source[f]]

\* C21: a step that is toggleFundingSource(i) flips the enabled flag of source
\* i and leaves its id, name, amount and parameters, every other source, and
\* the number and order of the sources as they were; toggling i again gives
\* back the sources of before the step.
C21_ToggleFrame ==
    [][\A i \in DOMAIN fundingSources :
          (fundingSources' # fundingSources /\ UserEvent /\ toggleFundingSource(i))
              => /\ fundingSources'[i].enabled = ~fundingSources[i].enabled
                 /\ Unflagged(fundingSources'[i]) = Unflagged(fundingSources[i])
                 /\ DOMAIN fundingSources' = DOMAIN fundingSources
                 /\ \A j \in DOMAIN fundingSources \ {i} :
                        fundingSources'[j] = fundingSources[j]
                 /\ updatedSources(fundingSources', i) = fundingSources]_vars

\* from the defaults, one toggle of existing_house: it is enabled and nothing
\* else differs from initialFundingSources
C21_Witness ==
    /\ events = 1
    /\ fundingSources[2].id = "existing_house"
    /\ fundingSources[2].enabled
    /\ Unflagged(fundingSources[2]) = Unflagged(initialFundingSources[2])
    /\ \A j \in DOMAIN fundingSources \ {2} : fundingSources[j] = initialFundingSources[j]

\* the weight, in hundredths, of the character at place i of a text whose
\* decimal point is at place point
PlaceWeight(i, point) == IF i < point THEN 100 * 10^(point - 1 - i) ELSE 10^(2 + point - i)

RECURSIVE DenotedFrom(_, _, _)
DenotedFrom(s, i, point) ==
    IF i > Len(s) THEN 0
    ELSE (IF i = point THEN 0 ELSE DigitOf(s[i]) * PlaceWeight(i, point))
             + DenotedFrom(s, i + 1, point)

\* the number a decimal numeral denotes, in hundredths: the sum of its digits
\* times the weights of their places; 0 for the empty text
Denoted(s) ==
    DenotedFrom(s, 1, IF \E i \in DOMAIN s : s[i] = "."
                      THEN CHOOSE i \in DOMAIN s : s[i] = "." ELSE Len(s) + 1)

LinkedFields == {"propertyValue", "loanAmount", "downPayment"}

\* the source-specific inputs: the source and the field each one writes
ParameterFields ==
    {<<1, "monthlyContribution">>, <<2, "appreciationRate">>, <<3, "interestRate">>,
     <<4, "rentalIncome">>, <<5, "appreciationRate">>, <<5, "taxRate">>}

\* C22: after an input event carrying the text s, the field it was typed into
\* holds the number s denotes, 0 for the empty text, and never a string; for
\* propertyValue, loanAmount, downPayment (unless an effect overwrote the
\* field in the same update), interestRate, and each source's amount and
\* parameters.
C22_InputNormalization ==
    [][/\ \A f \in LinkedFields, s \in InputValues \cup FormInputValues :
              (/\ EditField(f, fieldOnChange(s))
               /\ \A k \in DOMAIN writes' : writes'[k] # f)
                  => FormValues'[f] = Denoted(s)
       /\ \A s \in RateTexts :
              (EditInterestRate /\ interestRate' = fieldOnChange(s))
                  => interestRate' = Denoted(s)
       /\ \A i \in DOMAIN fundingSources, s \in AmountInputs :
              updateFundingSourceAmount(i, s) => fundingSources'[i].amount = Denoted(s)
       /\ \A p \in ParameterFields, s \in ParameterInputs :
              updateSourceParameter(p[1], p[2], s)
                  => fundingSources'[p[1]][p[2]] = Denoted(s)]_vars

\* on the values c of a render, with propertyValue > 0, the loan amount
\* (resp. the down payment) is more than 0.01 away from its recomputed value
LoanAmountOff(c) ==
    /\ Num(c.propertyValue) > 0
    /\ Abs(Max(0, Num(c.propertyValue) - Num(c.downPayment)) - Num(c.loanAmount)) > Threshold

DownPaymentOff(c) ==
    /\ Num(c.propertyValue) > 0
    /\ Abs(Max(0, Num(c.propertyValue) - Num(c.loanAmount)) - Num(c.downPayment)) > Threshold

\* the step makes a corrective write: each one schedules a release timer
CorrectiveWrite == timers' > timers

\* C23: a corrective write is made only in a step that starts with the guard
\* free, and a step makes at most one: while the guard set by one rule's write
\* is held, the other rule does not write.  When a render with the guard free
\* finds both rules eligible, the write is Rule A's, to loanAmount, and
\* downPayment is left as the render had it.
C23_ReentrancyGuard ==
    [][/\ CorrectiveWrite => (~isUpdating /\ timers' = timers + 1 /\ isUpdating')
       /\ (/\ watched' # watched
           /\ ~isUpdating
           /\ LoanAmountOff(watched') /\ DownPaymentOff(watched'))
              => /\ CorrectiveWrite
                 /\ writes'[Len(writes')] = "loanAmount"
                 /\ downPayment' = watched'.downPayment]_vars

\* Rule A has written, and Rule B, eligible on the same render, has not
C23_Witness ==
    /\ isUpdating
    /\ writes = <<"loanAmount">>
    /\ DownPaymentOff(watched)
    /\ downPayment = watched.downPayment

\* C24: once the user has edited propertyValue to 0, or cleared it, with the
\* guard free, loanAmount is max(0, 0 - downPayment) = 0.
C24_RuleAAtZero ==
    (/\ edit.field = "propertyValue" /\ Num(edit.value) = 0 /\ ~edit.guarded
     /\ propertyValue = edit.value)
        => loanAmount = 0

\* how far the loan amount (resp. the down payment) of the values c is from
\* its recomputed value
LoanAmountGap(c) ==
    Abs(Max(0, Num(c.propertyValue) - Num(c.downPayment)) - Num(c.loanAmount))

DownPaymentGap(c) ==
    Abs(Max(0, Num(c.propertyValue) - Num(c.loanAmount)) - Num(c.downPayment))

\* C25: a corrective write to loanAmount (resp. downPayment) is made only by
\* a render on whose values the recomputed loanAmount (resp. downPayment) is
\* more than 0.01 away from the current one; a render on whose values both are
\* within 0.01 writes nothing, leaves the guard as it was and schedules no
\* release timer.
C25_ThresholdNoOp ==
    [][/\ (CorrectiveWrite /\ writes'[Len(writes')] = "loanAmount")
              => LoanAmountGap(watched') > Threshold
       /\ (CorrectiveWrite /\ writes'[Len(writes')] = "downPayment")
              => DownPaymentGap(watched') > Threshold
       /\ (/\ watched' # watched
           /\ LoanAmountGap(watched') <= Threshold
           /\ DownPaymentGap(watched') <= Threshold)
              => /\ ~CorrectiveWrite
                 /\ isUpdating' = isUpdating
                 /\ timers' = timers
                 /\ FormValues' = watched']_vars

\* an edit with the guard free has left loanAmount exactly 0.01 away from its
\* recomputed value, and nothing was written
C25_Witness ==
    /\ edit.field # "none" /\ ~edit.guarded
    /\ writes = <<>> /\ ~isUpdating /\ timers = 0
    /\ watched = FormValues
    /\ Num(propertyValue) > 0
    /\ LoanAmountGap(watched) = Threshold

\* the three fields hold numbers >= 0 with propertyValue = loanAmount + downPayment
Consistent ==
    /\ \A f \in LinkedFields : IsNumber(FormValues[f]) /\ FormValues[f] >= 0
    /\ propertyValue = loanAmount + downPayment

\* the step is an input event of propertyValue, loanAmount or downPayment
LinkedInputEvent ==
    \E f \in LinkedFields, s \in InputValues \cup FormInputValues :
        EditField(f, fieldOnChange(s))

\* C26: from a consistent state with the guard free, every step but an input
\* event of one of the three fields (a render caused by a toggle, a source or
\* rate input or a calculation, or the render a setValue scheduled) leaves the
\* three fields, the guard and the release timers as they were.
C26_ConsistentIsFixpoint ==
    [][(/\ Consistent
        /\ ~isUpdating
        /\ (FormValues' # FormValues \/ isUpdating' # isUpdating \/ timers' # timers))
           => LinkedInputEvent]_vars

\* a calculation made in a consistent state that a corrective write had
\* produced, every render done and the guard released
C26_Witness ==
    /\ Consistent
    /\ showResults
    /\ writes # <<>>
    /\ watched = FormValues /\ ~isUpdating /\ timers = 0
    /\ submitted[1].data = FormData

\* C27: whenever isUpdating is set a release timer is pending, and, timers
\* being run fairly, whenever isUpdating is set it is cleared later.
C27_GuardLiveness ==
    /\ [](isUpdating => timers > 0)
    /\ (isUpdating ~> ~isUpdating)

\* a corrective write was made and its guard has been released
C27_Witness == writes # <<>> /\ ~isUpdating /\ timers = 0

CalculateStep ==
    /\ events' # events /\ showResults'
    /\ Len(submitted') = (IF submitted = <<>> THEN 1 ELSE 2)
    /\ submitted'[1].data = FormData /\ submitted'[1].sources = fundingSources
    /\ Len(submitted') = 2 => submitted'[2] = submitted[1]
    /\ UserEvent /\ Calculate

\* interestRate, loanTerm, every funding source and propertyValue are
\* unchanged; and, unless the render of an earlier setValue was outstanding,
\* no corrective write is made and loanAmount, downPayment, the guard and the
\* release timers are unchanged
CalculateFrame ==
    /\ UNCHANGED <<rateVars, fundingSources, propertyValue>>
    /\ FormValues = watched
           => /\ ~CorrectiveWrite
              /\ UNCHANGED <<loanAmount, downPayment, isUpdating, timers>>

C30_GuardHasOneTimer ==
    /\ timers \in {0, 1}
    /\ isUpdating <=> timers = 1

\* an edit arrived while the guard was set: the guard is still set and no
\* second timer was scheduled
C30_Witness == edit.guarded /\ isUpdating /\ timers = 1 /\ FormValues = watched

====
